---- MODULE Spec2Model ----
(***************************************************************************)
(* kaia-agent-analytics: the job runner (src/src/index.ts), the response   *)
(* parser, the Slack sink (src/src/services/slackService.ts) and the       *)
(* startup of the service modules, as one state machine.                   *)
(*                                                                         *)
(* One step of the model is one turn of the Node event loop: the I/O       *)
(* completion that starts the turn together with every promise reaction    *)
(* (microtask) it triggers, up to the next await on an external call.      *)
(***************************************************************************)
EXTENDS Integers, Sequences, FiniteSets, TLC

\* ------------------------------------------------------------------ bounds
NumMetrics == 2   \* entries of METRICS that the model runs
MaxRuns == 1      \* job runs the recurring trigger may start in one behaviour
MaxBatch == 2     \* longest batch given to the sink on its own

MetricIds == 1..NumMetrics

\* ------------------------------------------------------- text and JS values
\* A text is a sequence of tokens.  Tok(t) is a piece of text without a
\* payload; ObjectTok is the JSON text of an object with the properties the
\* sink reads (metricName, significance, historicalTrend, technicalAnalysis).
Tok(t) ==
  [tok |-> t, metricName |-> 0, significance |-> "-",
   historicalTrend |-> FALSE, technicalAnalysis |-> FALSE,
   absoluteChange |-> << >>, historicalAverage |-> << >>]

ObjectTok(name, sig) ==
  [tok |-> "object", metricName |-> name, significance |-> sig,
   historicalTrend |-> TRUE, technicalAnalysis |-> TRUE,
   absoluteChange |-> << >>, historicalAverage |-> << >>]

\* the JSON text of an analysis that also states its absoluteChange and its
\* historicalAverage; << n >> is a stated number, << >> a property left out
AnalysisTok(name, sig, change, average) ==
  [ObjectTok(name, sig) EXCEPT !.absoluteChange = << change >>,
                               !.historicalAverage = << average >>]

\* the levels of MetricAnalysis.significance
Tiers == {"LOW", "MEDIUM", "HIGH", "CRITICAL"}

FenceOpen == Tok("fence-open")
FenceClose == Tok("fence-close")
Newline == Tok("newline")
Space == Tok("space")

Whitespace == {Newline, Space}

\* What generateContent resolves with: a string, or null (response.text ?? null)
StringResult(text) ==
  [isString |-> TRUE, text |-> text]

NullResult ==
  [isString |-> FALSE, text |-> <<>>]

\* A JS value as the job runner sees it.  metricName = 0, significance = "-"
\* and FALSE stand for an undefined property; error = "none" for an object
\* without an error property.  errorMetric is the metric named inside the
\* error string.
Undefined ==
  [type |-> "undefined", metricName |-> 0, significance |-> "-",
   historicalTrend |-> FALSE, technicalAnalysis |-> FALSE,
   absoluteChange |-> << >>, historicalAverage |-> << >>,
   error |-> "none", errorMetric |-> 0,
   rawResult |-> NullResult, cleanedResult |-> <<>>]

ErrorRecord(err, metricName, raw, cleaned) ==
  [Undefined EXCEPT !.type = "object", !.error = err,
                    !.errorMetric = metricName,
                    !.rawResult = raw, !.cleanedResult = cleaned]

\* geminiResult.replace: a leading json code fence with an optional newline
StripLeadingFence(text) ==
  IF Len(text) >= 1 /\ text[1] = FenceOpen
  THEN IF Len(text) >= 2 /\ text[2] = Newline
       THEN SubSeq(text, 3, Len(text))
       ELSE SubSeq(text, 2, Len(text))
  ELSE text

\* .replace: a trailing code fence with an optional newline before it
StripTrailingFence(text) ==
  IF Len(text) >= 1 /\ text[Len(text)] = FenceClose
  THEN IF Len(text) >= 2 /\ text[Len(text) - 1] = Newline
       THEN SubSeq(text, 1, Len(text) - 2)
       ELSE SubSeq(text, 1, Len(text) - 1)
  ELSE text

RECURSIVE TrimStart(_)
TrimStart(text) ==
  IF Len(text) >= 1 /\ text[1] \in Whitespace
  THEN TrimStart(Tail(text))
  ELSE text

RECURSIVE TrimEnd(_)
TrimEnd(text) ==
  IF Len(text) >= 1 /\ text[Len(text)] \in Whitespace
  THEN TrimEnd(SubSeq(text, 1, Len(text) - 1))
  ELSE text

\* String.prototype.trim()
Trim(text) ==
  TrimEnd(TrimStart(text))

JsonValueToks == {"object", "array", "number", "string", "null"}

\* JSON.parse: one JSON value, white space allowed around it; anything else
\* is a SyntaxError.
JSONParse(text) ==
  LET core == Trim(text) IN
    IF Len(core) = 1 /\ core[1].tok \in JsonValueToks
    THEN [ok |-> TRUE,
          value |-> [Undefined EXCEPT
                       !.type = core[1].tok,
                       !.metricName = core[1].metricName,
                       !.significance = core[1].significance,
                       !.historicalTrend = core[1].historicalTrend,
                       !.technicalAnalysis = core[1].technicalAnalysis,
                       !.absoluteChange = core[1].absoluteChange,
                       !.historicalAverage = core[1].historicalAverage]]
    ELSE [ok |-> FALSE, value |-> Undefined]

CleanResult(text) ==
  Trim(StripTrailingFence(StripLeadingFence(text)))

\* The outcome of a call: an exception that leaves the function, or the
\* value it returns.  jsonParsed lists the texts handed to JSON.parse.
Returns(value, jsonParsed) ==
  [threw |-> FALSE, value |-> value, jsonParsed |-> jsonParsed]

Throws(jsonParsed) ==
  [threw |-> TRUE, value |-> Undefined, jsonParsed |-> jsonParsed]

\* if (typeof geminiResult !== "string"): the record returned before any
\* cleaning or parsing
NonStringRecordStringified(geminiResult, metricName) ==
  ErrorRecord("non-string result", metricName,
              StringResult(<< Tok("null") >>), <<>>)

NonStringRecord(geminiResult, metricName) ==
  ErrorRecord("non-string result", metricName, geminiResult, <<>>)

\* parsedResult.significance and parsedResult.latestValue, read for the debug
\* log: a TypeError when parsedResult is null
PropertyReadThrows(parsedResult) ==
  parsedResult.type = "null"

\* the try block: JSON.parse(cleanedResult), the debug log, return parsedResult
TryBlock(cleanedResult) ==
  LET parsed == JSONParse(cleanedResult) IN
    IF parsed.ok /\ ~PropertyReadThrows(parsed.value)
    THEN Returns(parsed.value, << cleanedResult >>)
    ELSE Throws(<< cleanedResult >>)

\* the catch block: logs, then returns the error record
CatchBlockRethrows(geminiResult, cleanedResult, metricName) ==
  Throws(<< cleanedResult >>)

CatchBlockSwapsTexts(geminiResult, cleanedResult, metricName) ==
  Returns(ErrorRecord("Failed to parse JSON", metricName,
                      StringResult(cleanedResult), geminiResult.text),
          << cleanedResult >>)

CatchBlock(geminiResult, cleanedResult, metricName) ==
  Returns(ErrorRecord("Failed to parse JSON", metricName,
                      geminiResult, cleanedResult),
          << cleanedResult >>)

\* A call of parseGeminiResponse.  JSON null ends in the catch branch like a
\* syntax error, by the TypeError of the debug log.
ParseCall(geminiResult, metricName) ==
  IF ~geminiResult.isString
  THEN Returns(NonStringRecord(geminiResult, metricName), <<>>)
  ELSE LET cleanedResult == CleanResult(geminiResult.text)
           attempt == TryBlock(cleanedResult)
       IN IF attempt.threw
          THEN CatchBlock(geminiResult, cleanedResult, metricName)
          ELSE attempt

\* the value parseGeminiResponse hands to processMetric
parseGeminiResponse(geminiResult, metricName) ==
  ParseCall(geminiResult, metricName).value

\* ------------------------------------------------------------ Slack sink
Block(type, metricName, label) ==
  [type |-> type, metricName |-> metricName, label |-> label]

\* the nested conditional that renders metric.significance
SignificanceLabel(significance) ==
  IF significance = "HIGH" THEN "HIGH!"
  ELSE IF significance = "MEDIUM" THEN "MEDIUM!"
  ELSE "LOW"

RECURSIVE TableRows(_)
TableRows(metricsData) ==
  IF metricsData = <<>> THEN <<>>
  ELSE LET metric == Head(metricsData) IN
    << Block("section", metric.metricName,
             SignificanceLabel(metric.significance)),
       Block("divider", 0, "") >> \o TableRows(Tail(metricsData))

createMetricsTable(metricsData) ==
  << Block("header", 0, "Metrics Overview Table"),
     Block("section", 0, "columns"),
     Block("divider", 0, "") >> \o TableRows(metricsData)

RECURSIVE GridRows(_)
GridRows(metricsData) ==
  IF metricsData = <<>> THEN <<>>
  ELSE LET metric == Head(metricsData) IN
    << Block("section", metric.metricName,
             SignificanceLabel(metric.significance)),
       Block("section", metric.metricName, "values") >>
    \o (IF metric.historicalTrend
        THEN << Block("section", metric.metricName, "Historical Trend") >>
        ELSE <<>>)
    \o (IF metric.technicalAnalysis
        THEN << Block("section", metric.metricName, "Technical Analysis") >>
        ELSE <<>>)
    \o << Block("divider", 0, "") >>
    \o GridRows(Tail(metricsData))

createMetricsGrid(metricsData) ==
  << Block("header", 0, "Metrics Summary") >> \o GridRows(metricsData)

\* the block list sendGridFormattedSlackMessage builds before it decides
\* whether to send
AllBlocks(metricsData) ==
  << Block("header", 0, "Date"), Block("divider", 0, "") >>
  \o createMetricsTable(metricsData)
  \o createMetricsGrid(metricsData)

\* if (allBlocks.length > 2)
ShouldSend(allBlocks) ==
  Len(allBlocks) > 2

\* ------------------------------------------------------------------ state
VARIABLES
  env,        \* process.env as read at startup: the credentials and CRON_SCHEDULE
  pc,         \* where the process is: module loading, index body, serving
  cronTasks,  \* the expressions registered with cron.schedule
  runs,       \* the calls of main(), in start order
  logged,     \* error log: [run, metric, context] of the handleError calls and of
              \* the errors the startup and the parser log themselves
  firings,    \* firings of the recurring trigger so far
  call        \* a direct call of an exported or pure function: arguments, result

vars == << env, pc, cronTasks, runs, logged, firings, call >>

\* no function is called directly
NoCall ==
  [fn |-> "none"]

CronSettings == {"unset", "valid", "invalid"}

Log(run, metric, context) ==
  [run |-> run, metric |-> metric, context |-> context]

\* ------------------------------------------------------------- one job run
\* The promise of processMetric(metric): both awaits and how it settled.
\* geminiResult is what generateContent resolved with, once pc = "fulfilled".
NewTask ==
  [pc |-> "fetching", geminiResult |-> NullResult, value |-> Undefined]

\* main() up to its first await: METRICS.map(processMetric) calls every
\* processMetric, each of which runs up to its await on getLatestResult.
NewRun(origin) ==
  [origin |-> origin,
   status |-> "processing",
   task |-> [i \in MetricIds |-> NewTask],
   values |-> [i \in MetricIds |-> Undefined],
   remaining |-> NumMetrics,
   failure |-> "none",
   sinkCalls |-> 0,
   batch |-> <<>>,
   sends |-> <<>>]

\* Promise.all keeps each fulfilled value at the index of its promise
PromiseAllStoreByCompletion(values, index, value) ==
  LET filled == Cardinality({k \in DOMAIN values : values[k] # Undefined})
  IN [values EXCEPT ![filled + 1] = value]

PromiseAllStore(values, index, value) ==
  [values EXCEPT ![index] = value]

\* "error" in r throws a TypeError when r is not an object
InOperatorThrows(results) ==
  \E k \in DOMAIN results : results[k].type \notin {"object", "array"}

\* The rejection of main(): asyncErrorHandler logs it as "Main Process" and
\* rethrows; nobody awaits main(), so the unhandledRejection handler logs it.
MainRejected(r) ==
  { Log(r, 0, "Main Process"), Log(r, 0, "Unhandled Rejection") }

\* createMetricsTable and createMetricsGrid read the properties of each
\* entry only inside template literals and parseInt: an undefined property
\* renders as text and nothing throws while the blocks are built.
BuildThrowsOnUndefinedName(metricsData) ==
  \E k \in DOMAIN metricsData : metricsData[k].metricName = 0

BuildThrows(metricsData) ==
  FALSE

CallSinkEachMetric(run, metricsData) ==
  [run EXCEPT !.sinkCalls = @ + 1,
              !.batch = metricsData,
              !.sends = [k \in 1..Len(metricsData) |->
                           [blocks |-> AllBlocks(<< metricsData[k] >>),
                            metricCount |-> 1]],
              !.status = "sending"]

\* sendGridFormattedSlackMessage up to its await on webhook.send
CallSink(run, metricsData) ==
  LET allBlocks == AllBlocks(metricsData) IN
    IF BuildThrows(metricsData)
    THEN [run EXCEPT !.sinkCalls = @ + 1,
                     !.batch = metricsData,
                     !.status = "failed",
                     !.failure = "sink-build"]
    ELSE [run EXCEPT !.sinkCalls = @ + 1,
                     !.batch = metricsData,
                     !.sends = IF ShouldSend(allBlocks)
                               THEN Append(@, [blocks |-> allBlocks,
                                               metricCount |-> Len(metricsData)])
                               ELSE @,
                     !.status = IF ShouldSend(allBlocks) THEN "sending" ELSE "done"]

\* main() after Promise.all has fulfilled: the debug log that counts error
\* records, then the sink.
MainContinues(run, results) ==
  IF InOperatorThrows(results)
  THEN [run EXCEPT !.status = "failed", !.failure = "in-operator"]
  ELSE CallSink(run, results)

\* Promise.all fulfils when no promise is left to wait for
AllFulfilledAtFirst(remaining) ==
  remaining < NumMetrics

AllFulfilled(remaining) ==
  remaining = 0

\* a processMetric promise fulfils with value; the last one lets
\* await Promise.all return
TaskFulfilled(run, i, geminiResult, value) ==
  LET stored == [run EXCEPT !.task[i] = [pc |-> "fulfilled",
                                         geminiResult |-> geminiResult,
                                         value |-> value],
                            !.values = PromiseAllStore(@, i, value),
                            !.remaining = @ - 1]
  IN IF AllFulfilled(stored.remaining) /\ run.status = "processing"
     THEN MainContinues(stored, stored.values)
     ELSE stored

\* a processMetric promise rejects: Promise.all rejects at the first one,
\* whatever the other promises do
TaskRejectedRetries(run, i) ==
  [run EXCEPT !.task[i].pc = "fetching"]

TaskRejected(run, i) ==
  [run EXCEPT !.task[i].pc = "rejected",
              !.status = IF @ = "processing" THEN "failed" ELSE @,
              !.failure = IF run.status = "processing" THEN "metric" ELSE @]

\* ------------------------------------------------------ external outcomes
\* What the model lets the Gemini call answer for metric i: the analysis
\* object in a json code fence, prose that is no JSON, a bare JSON number,
\* and no text at all (null).
GeminiResults(i) ==
  { StringResult(<< FenceOpen, Newline, ObjectTok(i, "HIGH"), Newline, FenceClose >>),
    StringResult(<< Tok("prose") >>),
    StringResult(<< Tok("number") >>),
    NullResult }

\* ---------------------------------------------------------------- startup
Init ==
  /\ env \in [DUNE_API_KEY : BOOLEAN, GEMINI_API_KEY : BOOLEAN,
              SLACK_WEBHOOK_URL : BOOLEAN, CRON_SCHEDULE : CronSettings,
              NODE_ENV : {"unread"}]
  /\ pc = "loadSlack"
  /\ cronTasks = {}
  /\ runs = <<>>
  /\ logged = {}
  /\ firings = 0
  /\ call = NoCall

\* if (cronSchedule)
ScheduledNever == FALSE

ScheduledAlways == TRUE

Scheduled == env.CRON_SCHEDULE # "unset"

SlackUrlMissing == ~env.SLACK_WEBHOOK_URL

GeminiKeyMissingIgnored == FALSE

GeminiKeyMissing == ~env.GEMINI_API_KEY

DuneKeyMissing == ~env.DUNE_API_KEY

\* A service module whose credential is missing logs and throws while the
\* imports of index.ts are evaluated: the body of index.ts never runs.
LoadModule(missing, message, next) ==
  /\ pc' = IF missing THEN "crashed" ELSE next
  /\ logged' = IF missing THEN logged \cup {Log(0, 0, message)} ELSE logged
  /\ UNCHANGED << env, call, cronTasks, runs, firings >>

LoadSlackService ==
  /\ pc = "loadSlack"
  /\ LoadModule(SlackUrlMissing, "SLACK_WEBHOOK_URL is not set", "loadGemini")

LoadGeminiService ==
  /\ pc = "loadGemini"
  /\ LoadModule(GeminiKeyMissing, "GEMINI_API_KEY is not set", "loadDune")

LoadDuneService ==
  /\ pc = "loadDune"
  /\ LoadModule(DuneKeyMissing, "DUNE_API_KEY is not set", "indexBody")

\* The uncaughtException handler: handleError, then process.exit(1) when
\* NODE_ENV is production
ExitsOnUncaughtAlways(NODE_ENV) ==
  TRUE

ExitsOnUncaught(NODE_ENV) ==
  NODE_ENV = "production"

\* if (cronSchedule): validate, log, cron.schedule(cronSchedule, () => main()).
\* What node-cron does with an expression that fails its own validation is
\* not in the repository: it either throws out of the module body (an
\* uncaught exception) or registers the task.  The uncaughtException handler
\* logs and reads NODE_ENV when it runs.  NODE_ENV is fixed when the process
\* starts and nothing else reads it: env.NODE_ENV is "unread" until the
\* handler reads it, and takes its value then.
StartScheduled ==
  /\ pc = "indexBody"
  /\ Scheduled
  /\ \E throws \in (IF env.CRON_SCHEDULE = "invalid" THEN BOOLEAN ELSE {FALSE}) :
     \E NODE_ENV \in (IF throws THEN {"production", "development"}
                      ELSE {env.NODE_ENV}) :
       /\ cronTasks' = IF throws THEN cronTasks
                       ELSE cronTasks \cup {env.CRON_SCHEDULE}
       /\ logged' = logged
            \cup (IF env.CRON_SCHEDULE = "invalid"
                  THEN {Log(0, 0, "Invalid cron schedule")} ELSE {})
            \cup (IF throws THEN {Log(0, 0, "Uncaught Exception")} ELSE {})
       /\ env' = [env EXCEPT !.NODE_ENV = NODE_ENV]
       /\ pc' = IF throws /\ ExitsOnUncaught(NODE_ENV)
                THEN "exit(1)" ELSE "serving"
  /\ UNCHANGED << call, runs, firings >>

\* else: main() is called once
StartSingleRun ==
  /\ pc = "indexBody"
  /\ ~Scheduled
  /\ runs' = Append(runs, NewRun("startup"))
  /\ pc' = "serving"
  /\ UNCHANGED << env, call, cronTasks, logged, firings >>

\* the callback given to cron.schedule: () => { main(); }.  A firing starts
\* a run whatever the earlier runs did or are doing; limit bounds the runs
\* of one behaviour.
CronFireUnlessFailed(limit) ==
  /\ pc = "serving"
  /\ cronTasks # {}
  /\ Len(runs) < limit
  /\ \A r \in DOMAIN runs : runs[r].status # "failed"
  /\ runs' = Append(runs, NewRun("cron"))
  /\ firings' = firings + 1
  /\ UNCHANGED << env, call, pc, cronTasks, logged >>

CronFireWithin(limit) ==
  /\ pc = "serving"
  /\ cronTasks # {}
  /\ Len(runs) < limit
  /\ runs' = Append(runs, NewRun("cron"))
  /\ firings' = firings + 1
  /\ UNCHANGED << env, call, pc, cronTasks, logged >>

CronFire ==
  CronFireWithin(MaxRuns)

\* ------------------------------------------------------------ processMetric
\* getLatestResult settles.  On success processMetric builds the prompt and
\* calls generateContent; on failure the error leaves processMetric through
\* asyncErrorHandler ("Metric Processing"), which logs and rethrows.
FetchSettles(r, i) ==
  /\ pc = "serving"
  /\ runs[r].task[i].pc = "fetching"
  /\ \E ok \in BOOLEAN :
       IF ok
       THEN /\ runs' = [runs EXCEPT ![r].task[i].pc = "generating"]
            /\ UNCHANGED logged
       ELSE /\ runs' = [runs EXCEPT ![r] = TaskRejected(@, i)]
            /\ logged' = logged
                 \cup {Log(r, i, "Metric Processing")}
                 \cup (IF runs[r].status = "processing" THEN MainRejected(r) ELSE {})
  /\ UNCHANGED << env, call, pc, cronTasks, firings >>

\* generateContent throws: asyncErrorHandler ("Gemini Service") logs and
\* rethrows, then "Metric Processing" does the same.
GeminiThrows(r, i) ==
  /\ pc = "serving"
  /\ runs[r].task[i].pc = "generating"
  /\ runs' = [runs EXCEPT ![r] = TaskRejected(@, i)]
  /\ logged' = logged
       \cup {Log(r, i, "Gemini Service"), Log(r, i, "Metric Processing")}
       \cup (IF runs[r].status = "processing" THEN MainRejected(r) ELSE {})
  /\ UNCHANGED << env, call, pc, cronTasks, firings >>

\* generateContent resolves: parseGeminiResponse, the task fulfils, and when
\* it was the last one main() goes on to the sink.
GeminiResolvesIntoEveryRun(r, i) ==
  /\ pc = "serving"
  /\ runs[r].task[i].pc = "generating"
  /\ \E geminiResult \in GeminiResults(i) :
       LET value == parseGeminiResponse(geminiResult, i)
       IN /\ runs' = [q \in DOMAIN runs |->
                       IF runs[q].task[i].pc = "generating"
                       THEN TaskFulfilled(runs[q], i, geminiResult, value)
                       ELSE runs[q]]
          /\ logged' = logged
               \cup (IF value.error # "none" THEN {Log(r, i, value.error)} ELSE {})
  /\ UNCHANGED << env, call, pc, cronTasks, firings >>

\* each run awaits its own generateContent call: the resolution of one call
\* settles the task of that run only
GeminiResolves(r, i) ==
  /\ pc = "serving"
  /\ runs[r].task[i].pc = "generating"
  /\ \E geminiResult \in GeminiResults(i) :
       LET value == parseGeminiResponse(geminiResult, i)
           after == TaskFulfilled(runs[r], i, geminiResult, value)
       IN /\ runs' = [runs EXCEPT ![r] = after]
          /\ logged' = logged
               \cup (IF value.error # "none" THEN {Log(r, i, value.error)} ELSE {})
               \cup (IF runs[r].status = "processing" /\ after.status = "failed"
                     THEN MainRejected(r) ELSE {})
  /\ UNCHANGED << env, call, pc, cronTasks, firings >>

\* ------------------------------------------------------------------- sink
\* webhook.send throws: no catch retries it, the run ends
WebhookFailedRetries(run) ==
  [run EXCEPT !.failure = "webhook", !.sends = Append(@, @[1])]

WebhookFailed(run) ==
  [run EXCEPT !.failure = "webhook", !.status = "failed"]

\* webhook.send settles.  A failure leaves sendGridFormattedSlackMessage
\* through asyncErrorHandler ("Slack Service") and then main().
WebhookSettles(r) ==
  /\ pc = "serving"
  /\ runs[r].status = "sending"
  /\ \E ok \in BOOLEAN :
       IF ok
       THEN /\ runs' = [runs EXCEPT ![r].status = "done"]
            /\ UNCHANGED logged
       ELSE /\ runs' = [runs EXCEPT ![r] = WebhookFailed(@)]
            /\ logged' = logged \cup {Log(r, 0, "Slack Service")} \cup MainRejected(r)
  /\ UNCHANGED << env, call, pc, cronTasks, firings >>

\* ------------------------------------------------------------------- exit
RunQuiet(run) ==
  /\ run.status \in {"done", "failed"}
  /\ \A i \in MetricIds : run.task[i].pc \in {"fulfilled", "rejected"}

\* Node exits when nothing is pending: no cron task and no call in flight
ProcessExit ==
  /\ pc = "serving"
  /\ cronTasks = {}
  /\ \A r \in DOMAIN runs : RunQuiet(runs[r])
  /\ pc' = "exited"
  /\ UNCHANGED << env, call, cronTasks, runs, logged, firings >>

Next ==
  \/ LoadSlackService
  \/ LoadGeminiService
  \/ LoadDuneService
  \/ StartScheduled
  \/ StartSingleRun
  \/ CronFire
  \/ \E r \in DOMAIN runs, i \in MetricIds : FetchSettles(r, i)
  \/ \E r \in DOMAIN runs, i \in MetricIds : GeminiThrows(r, i)
  \/ \E r \in DOMAIN runs, i \in MetricIds : GeminiResolves(r, i)
  \/ \E r \in DOMAIN runs : WebhookSettles(r)
  \/ ProcessExit

Spec == Init /\ [][Next]_vars

\* ------------------------------------------------- the sink on its own
\* sendGridFormattedSlackMessage is exported: any array of results may be
\* handed to it.
SinkSamples ==
  { parseGeminiResponse(g, i) : g \in UNION {GeminiResults(j) : j \in MetricIds},
                                i \in MetricIds }
  \cup { parseGeminiResponse(StringResult(<< ObjectTok(i, sig) >>), i) :
           i \in MetricIds, sig \in Tiers }

RECURSIVE SeqsUpTo(_, _)
SeqsUpTo(S, n) ==
  IF n = 0 THEN { <<>> }
  ELSE LET shorter == SeqsUpTo(S, n - 1)
       IN shorter \cup { Append(q, x) : q \in shorter, x \in S }

InitSink ==
  /\ env = [DUNE_API_KEY |-> TRUE, GEMINI_API_KEY |-> TRUE,
            SLACK_WEBHOOK_URL |-> TRUE, CRON_SCHEDULE |-> "unset"]
  /\ pc = "serving"
  /\ cronTasks = {}
  /\ runs = <<>>
  /\ logged = {}
  /\ firings = 0
  /\ call = NoCall

SinkCalled ==
  /\ runs = <<>>
  /\ \E metricsData \in SeqsUpTo(SinkSamples, MaxBatch) :
       runs' = << CallSink(NewRun("direct"), metricsData) >>
  /\ UNCHANGED << env, call, pc, cronTasks, logged, firings >>

NextSink ==
  \/ SinkCalled
  \/ \E r \in DOMAIN runs : WebhookSettles(r)

SpecSink == InitSink /\ [][NextSink]_vars

\* ------------------------------------------------ the significance criteria
MaxMagnitude == 6   \* largest absolute change and historical average tried

Abs(x) ==
  IF x < 0 THEN -x ELSE x

\* The criteria the prompt gives for each level, on whole numbers:
\* 0.5 * historical_average is compared after doubling both sides.
CriterionHoldsOpenAtHalf(tier, change, average) ==
  IF tier = "LOW" THEN 2 * Abs(change) < average
  ELSE IF tier = "MEDIUM" THEN average < 2 * Abs(change) /\ Abs(change) <= average
  ELSE IF tier = "HIGH" THEN average < Abs(change) /\ Abs(change) <= 2 * average
  ELSE Abs(change) > 2 * average

CriterionHolds(tier, change, average) ==
  IF tier = "LOW" THEN 2 * Abs(change) <= average
  ELSE IF tier = "MEDIUM" THEN average < 2 * Abs(change) /\ Abs(change) <= average
  ELSE IF tier = "HIGH" THEN average < Abs(change) /\ Abs(change) <= 2 * average
  ELSE Abs(change) > 2 * average

\* the levels whose criterion a pair (recent_absolute_change,
\* historical_average) meets
SignificanceCriteria(change, average) ==
  { tier \in Tiers : CriterionHolds(tier, change, average) }

Magnitudes == (-MaxMagnitude)..MaxMagnitude

InitCriteria ==
  /\ env = [DUNE_API_KEY |-> TRUE, GEMINI_API_KEY |-> TRUE,
            SLACK_WEBHOOK_URL |-> TRUE, CRON_SCHEDULE |-> "unset"]
  /\ pc = "serving"
  /\ cronTasks = {}
  /\ runs = <<>>
  /\ logged = {}
  /\ firings = 0
  /\ \E change \in Magnitudes, average \in Magnitudes :
       call = [fn |-> "significanceCriteria", change |-> change,
               average |-> average, called |-> FALSE, tiers |-> {}]

CriteriaApplied ==
  /\ call.fn = "significanceCriteria"
  /\ ~call.called
  /\ call' = [call EXCEPT
                !.called = TRUE,
                !.tiers = SignificanceCriteria(call.change, call.average)]
  /\ UNCHANGED << env, pc, cronTasks, runs, logged, firings >>

NextCriteria ==
  CriteriaApplied

SpecCriteria == InitCriteria /\ [][NextCriteria]_vars

\* ------------------------------------------- the response parser on its own
MaxTextLen == 3   \* longest free text, in tokens, handed to the parser
MaxPad == 1       \* longest run of white space around a fence or inside it

\* the JSON texts of one value each: an object, an array, a number, a string
\* and null
JsonTexts ==
  { ObjectTok(1, "HIGH"), Tok("array"), Tok("number"), Tok("string"),
    Tok("null") }

ParserToks ==
  JsonTexts \cup Whitespace \cup { FenceOpen, FenceClose, Tok("prose") }

\* the JSON text json inside a code fence, with white space before the
\* fence, after it, and between the fence and the JSON text
Fenced(before, inner1, json, inner2, after) ==
  before \o << FenceOpen >> \o inner1 \o << json >> \o inner2
         \o << FenceClose >> \o after

Pads == SeqsUpTo(Whitespace, MaxPad)

FencedTexts ==
  { Fenced(before, inner1, json, inner2, after) :
      before \in Pads, inner1 \in Pads, json \in JsonTexts,
      inner2 \in Pads, after \in Pads }

\* what generateContent can resolve with: any text, or null
\* the analyses the AI may answer: any tier with any pair of numbers, as
\* nothing makes the AI keep to the criteria of the prompt
AnalysisTexts ==
  { << AnalysisTok(1, sig, change, average) >> :
      sig \in Tiers, change \in Magnitudes, average \in Magnitudes }

ParserInputs ==
  { StringResult(text) :
      text \in SeqsUpTo(ParserToks, MaxTextLen) \cup FencedTexts \cup AnalysisTexts }
    \cup { NullResult }

InitParser ==
  /\ env = [DUNE_API_KEY |-> TRUE, GEMINI_API_KEY |-> TRUE,
            SLACK_WEBHOOK_URL |-> TRUE, CRON_SCHEDULE |-> "unset"]
  /\ pc = "serving"
  /\ cronTasks = {}
  /\ runs = <<>>
  /\ logged = {}
  /\ firings = 0
  /\ call \in { [fn |-> "parseGeminiResponse", geminiResult |-> geminiResult,
                 metricName |-> 1, called |-> FALSE,
                 outcome |-> Returns(Undefined, <<>>)] :
                geminiResult \in ParserInputs }

ParserCalled ==
  /\ call.fn = "parseGeminiResponse"
  /\ ~call.called
  /\ call' = [call EXCEPT !.called = TRUE,
                          !.outcome = ParseCall(call.geminiResult, call.metricName)]
  /\ UNCHANGED << env, pc, cronTasks, runs, logged, firings >>

NextParser ==
  ParserCalled

SpecParser == InitParser /\ [][NextParser]_vars

\* ------------------------------------------------ Date, in UTC, whole days
\* A Date at UTC midnight is its day number: days since 1970-01-01.
\* Months are 0..11 as in JS; week days are 0 (Sunday) .. 6 (Saturday).
IsLeapYear(y) ==
  (y % 4 = 0 /\ y % 100 # 0) \/ y % 400 = 0

DaysInMonth(y, m) ==
  IF m = 1 THEN (IF IsLeapYear(y) THEN 29 ELSE 28)
  ELSE IF m \in {3, 5, 8, 10} THEN 30
  ELSE 31

\* leap years before year y
LeapsBefore(y) ==
  ((y - 1) \div 4) - ((y - 1) \div 100) + ((y - 1) \div 400)

\* day number of January 1st of year y
DayFromYear(y) ==
  365 * (y - 1970) + LeapsBefore(y) - LeapsBefore(1970)

RECURSIVE DaysBeforeMonth(_, _)
DaysBeforeMonth(y, m) ==
  IF m = 0 THEN 0
  ELSE DaysBeforeMonth(y, m - 1) + DaysInMonth(y, m - 1)

\* MakeDay of ECMAScript: a month outside 0..11 carries into the year, a
\* date outside the month carries into the neighbouring months
MakeDay(year, month, date) ==
  LET ym == year + (month \div 12)
      mn == month % 12
  IN DayFromYear(ym) + DaysBeforeMonth(ym, mn) + date - 1

getUTCFullYear(t) ==
  CHOOSE y \in (1970 + (t \div 366)) .. (1970 + (t \div 365)) :
    DayFromYear(y) <= t /\ t < DayFromYear(y + 1)

getUTCMonth(t) ==
  LET y == getUTCFullYear(t) IN
    CHOOSE m \in 0..11 :
      MakeDay(y, m, 1) <= t /\ t < MakeDay(y, m, 1) + DaysInMonth(y, m)

getUTCDate(t) ==
  t - MakeDay(getUTCFullYear(t), getUTCMonth(t), 1) + 1

\* 1970-01-01 was a Thursday
getUTCDay(t) ==
  (t + 4) % 7

\* Date.prototype.setUTCDate: the day of the month of t is replaced, year
\* and month of t are kept, and the result is normalised
setUTCDateClamped(t, date) ==
  MakeDay(getUTCFullYear(t), getUTCMonth(t),
          IF date < 1 THEN 1 ELSE date)

setUTCDate(t, date) ==
  MakeDay(getUTCFullYear(t), getUTCMonth(t), date)

\* Date.prototype.setUTCMonth(month, date)
setUTCMonth(t, month, date) ==
  MakeDay(getUTCFullYear(t), month, date)

\* A date text YYYY-MM-DD is the triple of its numbers.
\* formatDate: year, month + 1 and day, the last two padded to two digits
formatDate(t) ==
  << getUTCFullYear(t), getUTCMonth(t) + 1, getUTCDate(t) >>

\* new Date(date + 'T00:00:00Z') for the date text of a calendar date
DateParse(date) ==
  MakeDay(date[1], date[2] - 1, date[3])

MonthNames ==
  << "January", "February", "March", "April", "May", "June", "July",
     "August", "September", "October", "November", "December" >>

\* toLocaleString('default', { month: 'long', timeZone: 'UTC' }), in English
getMonthName(t) ==
  MonthNames[getUTCMonth(t) + 1]

\* ------------------------------------------------------- Period Formatter
\* A HistoricalPeriod as the formatter receives it.  Only the properties of
\* its variant are read; the others stand for properties that are absent.
PeriodValue(type) ==
  [type |-> type, count |-> 0, unit |-> "-", period |-> "-",
   year |-> 0, month |-> 0, date |-> << >>]

RelativeRange(count, unit) ==
  [PeriodValue("relativeRange") EXCEPT !.count = count, !.unit = unit]

RelativeSpecific(period) ==
  [PeriodValue("relativeSpecific") EXCEPT !.period = period]

SpecificMonth(year, month) ==
  [PeriodValue("specificMonth") EXCEPT !.year = year, !.month = month]

SpecificYear(year) ==
  [PeriodValue("specificYear") EXCEPT !.year = year]

SpecificDate(date) ==
  [PeriodValue("specificDate") EXCEPT !.date = date]

\* The text returned: a template literal and the values put into it.  A date
\* is << year, month, day >>, a month name << name >>, a year << year >>.
Phrase(template, a, b) ==
  [template |-> template, a |-> a, b |-> b]

Described(text) ==
  [threw |-> FALSE, text |-> text]

FormatterThrows ==
  [threw |-> TRUE, text |-> Phrase("", << >>, << >>)]

\* if (count <= 0)
InvalidRangeNegativeOnly(count) ==
  count < 0

InvalidRange(count) ==
  count <= 0

\* case 'day'
RelativeRangeDay(today, count) ==
  LET endDate == setUTCDate(today, getUTCDate(today) - 1)
      startDate == setUTCDate(today, getUTCDate(today) - count)
  IN Phrase("for dates {a} to {b}", formatDate(startDate), formatDate(endDate))

\* case 'week': startDate is a copy of today, and its day of the month is
\* set from the day of the month of endDate
RelativeRangeWeek(today, count) ==
  LET endDate == setUTCDate(today, getUTCDate(today) - getUTCDay(today) - 1)
      startDate1 == setUTCDate(today, getUTCDate(endDate) - (count - 1) * 7)
      startDate == setUTCDate(startDate1,
                              getUTCDate(startDate1) - getUTCDay(startDate1))
  IN Phrase("for dates {a} to {b}", formatDate(startDate), formatDate(endDate))

\* case 'month'
RelativeRangeMonthKeepsDay(today, count) ==
  LET endDate == setUTCDate(today, 0)
      startDate == setUTCMonth(today, getUTCMonth(today) - count,
                               getUTCDate(today))
  IN IF count = 1
     THEN Phrase("for month {a}", << getMonthName(endDate) >>, << >>)
     ELSE Phrase("for months {a} to {b}", << getMonthName(startDate) >>,
                 << getMonthName(endDate) >>)

RelativeRangeMonth(today, count) ==
  LET endDate == setUTCDate(today, 0)
      startDate == setUTCMonth(today, getUTCMonth(today) - count, 1)
  IN IF count = 1
     THEN Phrase("for month {a}", << getMonthName(endDate) >>, << >>)
     ELSE Phrase("for months {a} to {b}", << getMonthName(startDate) >>,
                 << getMonthName(endDate) >>)

\* case 'year'
RelativeRangeYear(today, count) ==
  LET endYear == getUTCFullYear(today) - 1
      startYear == getUTCFullYear(today) - count
  IN IF count = 1
     THEN Phrase("for year {a}", << endYear >>, << >>)
     ELSE Phrase("for years {a} to {b}", << startYear >>, << endYear >>)

\* return "Unknown period", after the break of a switch that matched no case
UnknownPeriod ==
  Described(Phrase("Unknown period", << >>, << >>))

\* case 'relativeRange'
FormatRelativeRange(period, today) ==
  IF InvalidRange(period.count)
  THEN Described(Phrase("Invalid range", << >>, << >>))
  ELSE IF period.unit = "day"
       THEN Described(RelativeRangeDay(today, period.count))
  ELSE IF period.unit = "week"
       THEN Described(RelativeRangeWeek(today, period.count))
  ELSE IF period.unit = "month"
       THEN Described(RelativeRangeMonth(today, period.count))
  ELSE IF period.unit = "year"
       THEN Described(RelativeRangeYear(today, period.count))
  ELSE UnknownPeriod

\* case 'relativeSpecific'
FormatRelativeSpecific(period, today) ==
  IF period.period = "today"
  THEN Described(Phrase("for date {a}", formatDate(today), << >>))
  ELSE IF period.period = "yesterday"
  THEN LET yesterday == setUTCDate(today, getUTCDate(today) - 1)
       IN Described(Phrase("for date {a}", formatDate(yesterday), << >>))
  ELSE IF period.period = "thisWeek"
  THEN LET startOfWeek == setUTCDate(today, getUTCDate(today) - getUTCDay(today))
       IN Described(Phrase("for week starting {a}", formatDate(startOfWeek), << >>))
  ELSE IF period.period = "lastWeek"
  THEN LET endOfLastWeek ==
             setUTCDate(today, getUTCDate(today) - getUTCDay(today) - 1)
           startOfLastWeek ==
             setUTCDate(endOfLastWeek, getUTCDate(endOfLastWeek) - 6)
       IN Described(Phrase("for week {a} to {b}", formatDate(startOfLastWeek),
                           formatDate(endOfLastWeek)))
  ELSE IF period.period = "thisMonth"
  THEN LET startOfMonth == setUTCDate(today, 1)
       IN Described(Phrase("for month {a} {b}", << getMonthName(startOfMonth) >>,
                           << getUTCFullYear(startOfMonth) >>))
  ELSE IF period.period = "lastMonth"
  THEN LET lastMonthDate == setUTCDate(today, 0)
       IN Described(Phrase("for month {a} {b}", << getMonthName(lastMonthDate) >>,
                           << getUTCFullYear(lastMonthDate) >>))
  ELSE IF period.period = "thisYear"
  THEN Described(Phrase("for year {a}", << getUTCFullYear(today) >>, << >>))
  ELSE IF period.period = "lastYear"
  THEN Described(Phrase("for year {a}", << getUTCFullYear(today) - 1 >>, << >>))
  ELSE UnknownPeriod

\* specificD.getTime() === other.getTime()
SameDayOfMonth(specificD, other) ==
  getUTCDate(specificD) = getUTCDate(other)

SameInstant(specificD, other) ==
  specificD = other

\* case 'specificDate'
FormatSpecificDate(period, today) ==
  LET specificD == DateParse(period.date)
      yesterday == setUTCDate(today, getUTCDate(today) - 1)
  IN IF SameInstant(specificD, today)
     THEN Described(Phrase("for date {a} (today)", formatDate(today), << >>))
     ELSE IF SameInstant(specificD, yesterday)
     THEN Described(Phrase("for date {a} (yesterday)", formatDate(yesterday), << >>))
     ELSE Described(Phrase("from {a}", period.date, << >>))

\* default: a warning is logged and the period is rendered by
\* JSON.stringify, which does not throw on the plain data of a period
UnrecognizedTypeThrows(period) ==
  FormatterThrows

UnrecognizedType(period) ==
  Described(Phrase("Invalid period object: {a}", << period >>, << >>))

\* formatHistoricalPeriodDescription, with today = new Date() at UTC midnight
formatHistoricalPeriodDescription(period, today) ==
  IF period.type = "relativeRange" THEN FormatRelativeRange(period, today)
  ELSE IF period.type = "relativeSpecific" THEN FormatRelativeSpecific(period, today)
  ELSE IF period.type = "specificMonth"
       THEN Described(Phrase("for month {a} {b}",
                             << getMonthName(MakeDay(period.year, period.month, 1)) >>,
                             << period.year >>))
  ELSE IF period.type = "specificYear"
       THEN Described(Phrase("for year {a}", << period.year >>, << >>))
  ELSE IF period.type = "specificDate" THEN FormatSpecificDate(period, today)
  ELSE UnrecognizedType(period)

\* ------------------------------------------ the Period Formatter on its own
MaxCount == 13    \* largest count of a relative range
TodaySpan == 460  \* days after FirstToday that the reference date may be
MaxOffset == 2    \* a specific date is at most this many days from today

\* reference dates: 2023-12-01 and the days after it, across two changes of
\* year, a leap February and a common February
FirstToday == MakeDay(2023, 11, 1)

Todays == FirstToday .. (FirstToday + TodaySpan)

Units == {"day", "week", "month", "year"}

NamedPeriods ==
  {"today", "yesterday", "thisWeek", "lastWeek", "thisMonth", "lastMonth",
   "thisYear", "lastYear"}

\* period values: those of the HistoricalPeriod type and, since the type is
\* not checked at run time, values with a unit, a named period or a variant
\* tag the formatter does not know
Periods(today) ==
  { RelativeRange(count, unit) :
      count \in (-1)..MaxCount, unit \in Units \cup {"quarter"} }
  \cup { RelativeSpecific(period) : period \in NamedPeriods \cup {"lastQuarter"} }
  \cup { SpecificMonth(2024, month) : month \in 0..11 }
  \cup { SpecificYear(2024) }
  \cup { SpecificDate(formatDate(today + offset)) :
           offset \in (-MaxOffset)..MaxOffset }
  \cup { SpecificDate(<< 2024, 3, 15 >>) }
  \cup { PeriodValue("specificWeek") }

InitFormatter ==
  /\ env = [DUNE_API_KEY |-> TRUE, GEMINI_API_KEY |-> TRUE,
            SLACK_WEBHOOK_URL |-> TRUE, CRON_SCHEDULE |-> "unset"]
  /\ pc = "serving"
  /\ cronTasks = {}
  /\ runs = <<>>
  /\ logged = {}
  /\ firings = 0
  /\ \E today \in Todays : \E period \in Periods(today) :
       call = [fn |-> "formatHistoricalPeriodDescription",
               period |-> period, today |-> today, called |-> FALSE,
               outcome |-> Described(Phrase("", << >>, << >>))]

FormatterCalled ==
  /\ call.fn = "formatHistoricalPeriodDescription"
  /\ ~call.called
  /\ call' = [call EXCEPT
                !.called = TRUE,
                !.outcome = formatHistoricalPeriodDescription(call.period, call.today)]
  /\ UNCHANGED << env, pc, cronTasks, runs, logged, firings >>

NextFormatter ==
  FormatterCalled

SpecFormatter == InitFormatter /\ [][NextFormatter]_vars

\* ------------------------------------------------------- overlapping runs
\* The service in scheduled mode with every credential present and a valid
\* schedule; the trigger may fire again while the earlier run is in flight
\* (cron.schedule keeps no record of a running callback).  Two runs: the
\* earlier one and the one started while it is in flight.
InitOverlap ==
  /\ Init
  /\ env.DUNE_API_KEY /\ env.GEMINI_API_KEY /\ env.SLACK_WEBHOOK_URL
  /\ env.CRON_SCHEDULE = "valid"

NextOverlap ==
  \/ LoadSlackService
  \/ LoadGeminiService
  \/ LoadDuneService
  \/ StartScheduled
  \/ CronFireWithin(2)
  \/ \E r \in DOMAIN runs, i \in MetricIds : FetchSettles(r, i)
  \/ \E r \in DOMAIN runs, i \in MetricIds : GeminiThrows(r, i)
  \/ \E r \in DOMAIN runs, i \in MetricIds : GeminiResolves(r, i)
  \/ \E r \in DOMAIN runs : WebhookSettles(r)

SpecOverlap ==
  InitOverlap /\ [][NextOverlap]_vars

\* ----------------------------------------------------------------- claims
Settled(t) == t.pc \in {"fulfilled", "rejected"}

IsErrorRecord(v) == v.error # "none"

Dividers(blocks) ==
  Cardinality({k \in DOMAIN blocks : blocks[k].type = "divider"})

\* C1: when the fetch or the AI call of one metric throws, the run still
\* calls the sink, with an error record for that metric and the results of
\* the other metrics.
C1_FailingMetricStillReported ==
  \A r \in DOMAIN runs :
    ( /\ \E i \in MetricIds : runs[r].task[i].pc = "rejected"
      /\ \A i \in MetricIds : Settled(runs[r].task[i]) )
    => /\ runs[r].sinkCalls >= 1
       /\ Len(runs[r].batch) = NumMetrics
       /\ \A i \in MetricIds :
            IF runs[r].task[i].pc = "rejected"
            THEN IsErrorRecord(runs[r].batch[i])
            ELSE runs[r].batch[i] = runs[r].task[i].value

\* C2: a run has not completed, neither by reaching the sink nor by
\* failing, while one of its metric tasks is still unsettled.
C2_RunWaitsForEveryTask ==
  \A r \in DOMAIN runs :
    runs[r].status # "processing"
    => \A i \in MetricIds : Settled(runs[r].task[i])

\* C3: whatever the order in which the tasks complete, entry i of the batch
\* handed to the sink is the result of metric i of METRICS.
C3_BatchInConfigurationOrder ==
  \A r \in DOMAIN runs :
    runs[r].sinkCalls >= 1
    => /\ Len(runs[r].batch) = NumMetrics
       /\ \A i \in MetricIds :
            /\ runs[r].task[i].pc = "fulfilled"
            /\ runs[r].batch[i] = runs[r].task[i].value
            /\ \/ runs[r].batch[i].metricName = i
               \/ runs[r].batch[i].errorMetric = i

\* a batch of different results, one per metric, went to the sink
C3_Witness ==
  \E r \in DOMAIN runs :
    /\ runs[r].sinkCalls >= 1
    /\ Len(runs[r].batch) = NumMetrics
    /\ NumMetrics >= 2
    /\ \A i, j \in MetricIds : i # j => runs[r].batch[i] # runs[r].batch[j]
    /\ IsErrorRecord(runs[r].batch[1])
    /\ ~IsErrorRecord(runs[r].batch[NumMetrics])

\* C4: a run sends to the webhook at most once, and what it sends is built
\* from one entry per configured metric, all of them settled results.
C4_OneSendOfTheFullBatch ==
  \A r \in DOMAIN runs :
    /\ Len(runs[r].sends) <= 1
    /\ \A k \in DOMAIN runs[r].sends :
         /\ runs[r].sends[k].metricCount = NumMetrics
         /\ Dividers(runs[r].sends[k].blocks) = 2 + 2 * NumMetrics
         /\ \A i \in MetricIds :
              /\ runs[r].task[i].pc = "fulfilled"
              /\ runs[r].batch[i] = runs[r].task[i].value

C4_Witness ==
  \E r \in DOMAIN runs :
    /\ runs[r].status = "done"
    /\ Len(runs[r].sends) = 1
    /\ runs[r].sends[1].metricCount = NumMetrics

\* C5: when the batch given to the sink is empty, nothing is sent to the
\* webhook.
C5_EmptyBatchSendsNothing ==
  \A r \in DOMAIN runs :
    (runs[r].sinkCalls >= 1 /\ runs[r].batch = <<>>)
    => runs[r].sends = <<>>

\* C6: without CRON_SCHEDULE exactly one run is started, at startup; no
\* recurring trigger is registered and no other run ever starts.
C6_SingleRunWithoutSchedule ==
  env.CRON_SCHEDULE = "unset"
  => /\ cronTasks = {}
     /\ firings = 0
     /\ IF pc \in {"serving", "exited"}
        THEN Len(runs) = 1 /\ runs[1].origin = "startup"
        ELSE runs = <<>>

C6_Witness ==
  /\ env.CRON_SCHEDULE = "unset"
  /\ pc = "exited"
  /\ Len(runs) = 1
  /\ runs[1].status = "done"

C8_MissingCredentialStopsStartup ==
  (~env.DUNE_API_KEY \/ ~env.GEMINI_API_KEY \/ ~env.SLACK_WEBHOOK_URL)
  => /\ runs = <<>>
     /\ cronTasks = {}
     /\ firings = 0
     /\ pc \in {"loadSlack", "loadGemini", "loadDune", "crashed"}

C8_Witness ==
  /\ pc = "crashed"
  /\ env.SLACK_WEBHOOK_URL
  /\ ~env.GEMINI_API_KEY
  /\ \E entry \in logged : entry.context = "GEMINI_API_KEY is not set"

\* C9: a failed webhook send ends the run in failure, is logged on its way
\* out of the sink and of main, is not attempted again by that run, and
\* starts no run: the runs are the startup run and one per firing.
C9_SendFailureEndsTheRun ==
  \A r \in DOMAIN runs :
    runs[r].failure = "webhook"
    => /\ runs[r].status = "failed"
       /\ Len(runs[r].sends) = 1
       /\ runs[r].sinkCalls = 1
       /\ { Log(r, 0, "Slack Service"), Log(r, 0, "Main Process"),
            Log(r, 0, "Unhandled Rejection") } \subseteq logged
       /\ Len(runs) = firings + (IF env.CRON_SCHEDULE = "unset" THEN 1 ELSE 0)

C9_Witness ==
  \E r \in DOMAIN runs :
    /\ runs[r].failure = "webhook"
    /\ runs[r].status = "failed"
    /\ Len(runs[r].sends) = 1

\* the answers of the AI call that are no JSON text: prose, or no text at all
Unparseable(geminiResult) ==
  \/ ~geminiResult.isString
  \/ geminiResult.text = << Tok("prose") >>

\* C10: a metric whose AI answer cannot be parsed or is not text ends with
\* an error record, not with a failure; the record is in the batch the sink
\* gets together with the other results, and a batch with error records is
\* built into blocks and sent without throwing.
C10_ParseFailureIsReported ==
  \A r \in DOMAIN runs :
    /\ \A i \in MetricIds :
         ( /\ runs[r].task[i].pc = "fulfilled"
           /\ Unparseable(runs[r].task[i].geminiResult) )
         => /\ IsErrorRecord(runs[r].task[i].value)
            /\ runs[r].task[i].value.errorMetric = i
            /\ runs[r].task[i].value.rawResult = runs[r].task[i].geminiResult
            /\ runs[r].sinkCalls >= 1 => runs[r].batch[i] = runs[r].task[i].value
    /\ ( \A i \in MetricIds : /\ runs[r].task[i].pc = "fulfilled"
                              /\ runs[r].task[i].value.type = "object" )
       => /\ runs[r].sinkCalls = 1
          /\ Len(runs[r].sends) = 1
          /\ runs[r].failure \in {"none", "webhook"}

C10_Witness ==
  \E r \in DOMAIN runs :
    /\ runs[r].status = "done"
    /\ Len(runs[r].sends) = 1
    /\ \E i \in MetricIds :
         /\ Unparseable(runs[r].task[i].geminiResult)
         /\ IsErrorRecord(runs[r].batch[i])
    /\ \E j \in MetricIds : ~IsErrorRecord(runs[r].batch[j])

\* a call of parseGeminiResponse has been made and has ended
ParserDone ==
  call.fn = "parseGeminiResponse" /\ call.called

C12_FencedJsonRoundTrip ==
  \A before \in Pads, inner1 \in Pads, inner2 \in Pads, after \in Pads :
    LET json == ObjectTok(1, "HIGH") IN
      ( /\ ParserDone
        /\ call.geminiResult
             = StringResult(Fenced(before, inner1, json, inner2, after)) )
      => /\ ~call.outcome.threw
         /\ call.outcome.value = JSONParse(<< json >>).value

\* C13: when the AI call returned null the parser returns the "non-string
\* result" error record, with rawResult the very value received, and hands
\* nothing to JSON.parse.
C13_NullGivesNonStringRecord ==
  (ParserDone /\ ~call.geminiResult.isString)
  => /\ ~call.outcome.threw
     /\ call.outcome.value.type = "object"
     /\ call.outcome.value.error = "non-string result"
     /\ call.outcome.value.errorMetric = call.metricName
     /\ call.outcome.value.rawResult = call.geminiResult
     /\ call.outcome.jsonParsed = <<>>

C13_Witness ==
  /\ ParserDone
  /\ call.geminiResult = NullResult
  /\ call.outcome.value.error = "non-string result"
  /\ call.outcome.value.rawResult = NullResult

\* C14: when the text handed to JSON.parse is no JSON text, the record the
\* parser returns carries the raw text as received, the cleaned text that
\* was handed to JSON.parse, and the failure message naming the metric
\* ("Failed to parse JSON for metric ...").
C14_ParseFailureRecord ==
  ( /\ ParserDone
    /\ call.outcome.jsonParsed # <<>>
    /\ ~JSONParse(call.outcome.jsonParsed[1]).ok )
  => /\ ~call.outcome.threw
     /\ call.outcome.value.type = "object"
     /\ call.outcome.value.error = "Failed to parse JSON"
     /\ call.outcome.value.errorMetric = call.metricName
     /\ call.outcome.value.rawResult = call.geminiResult
     /\ call.outcome.jsonParsed = << call.outcome.value.cleanedResult >>

C14_Witness ==
  /\ ParserDone
  /\ call.geminiResult
       = StringResult(<< FenceOpen, Tok("prose"), FenceClose >>)
  /\ call.outcome.value.error = "Failed to parse JSON"
  /\ call.outcome.value.cleanedResult = << Tok("prose") >>
  /\ call.outcome.value.rawResult = call.geminiResult

\* a call of the Period Formatter has been made and has ended
FormatterDone ==
  call.fn = "formatHistoricalPeriodDescription" /\ call.called

\* C15: for every relative range with count <= 0, whatever the unit and the
\* reference date, the formatter returns the invalid-range sentinel: a text
\* without a date, a month name or a year.
C15_NonPositiveCountIsInvalidRange ==
  ( /\ FormatterDone
    /\ call.period.type = "relativeRange"
    /\ call.period.count <= 0 )
  => /\ ~call.outcome.threw
     /\ call.outcome.text = Phrase("Invalid range", << >>, << >>)

C15_Witness ==
  /\ FormatterDone
  /\ call.period = RelativeRange(0, "month")
  /\ call.outcome.text.template = "Invalid range"

\* C16: for a specific-date period the text carries "(today)" exactly when
\* the date is the reference today, "(yesterday)" exactly when it is the day
\* before today, also across a change of month or year, and neither
\* annotation for any other date.
C16_TodayAndYesterdayAnnotations ==
  ( /\ FormatterDone
    /\ call.period.type = "specificDate" )
  => LET template == call.outcome.text.template IN
       /\ ~call.outcome.threw
       /\ template \in {"for date {a} (today)", "for date {a} (yesterday)",
                        "from {a}"}
       /\ template = "for date {a} (today)"
            <=> call.period.date = formatDate(call.today)
       /\ template = "for date {a} (yesterday)"
            <=> call.period.date = formatDate(call.today - 1)
       /\ call.outcome.text.a = call.period.date

C16_Witness ==
  /\ FormatterDone
  /\ call.today = MakeDay(2024, 0, 1)
  /\ call.period = SpecificDate(<< 2023, 12, 31 >>)
  /\ call.outcome.text
       = Phrase("for date {a} (yesterday)", << 2023, 12, 31 >>, << >>)

\* the date text names a day of the calendar
ValidCalendarDate(date) ==
  /\ Len(date) = 3
  /\ date[2] \in 1..12
  /\ date[3] \in 1..DaysInMonth(date[1], date[2] - 1)

\* C17: for a relative range of N >= 1 days and every reference date the
\* formatter returns "for dates {today-N} to {today-1}", both of them days
\* of the calendar, also when the range crosses a change of month or year;
\* N = 3 on 2024-03-15 gives "for dates 2024-03-12 to 2024-03-14".
C17_DayRange ==
  ( /\ FormatterDone
    /\ call.period.type = "relativeRange"
    /\ call.period.unit = "day"
    /\ call.period.count >= 1 )
  => LET text == call.outcome.text IN
       /\ ~call.outcome.threw
       /\ text.template = "for dates {a} to {b}"
       /\ ValidCalendarDate(text.a)
       /\ ValidCalendarDate(text.b)
       /\ DateParse(text.a) = call.today - call.period.count
       /\ DateParse(text.b) = call.today - 1
       /\ (call.today = MakeDay(2024, 2, 15) /\ call.period.count = 3)
            => (text.a = << 2024, 3, 12 >> /\ text.b = << 2024, 3, 14 >>)

C17_Witness ==
  /\ FormatterDone
  /\ call.today = MakeDay(2024, 0, 2)
  /\ call.period = RelativeRange(3, "day")
  /\ call.outcome.text
       = Phrase("for dates {a} to {b}", << 2023, 12, 30 >>, << 2024, 1, 1 >>)

\* the name of the month that lies back months before the month of day t
MonthNameBack(t, back) ==
  MonthNames[((getUTCMonth(t) - back) % 12) + 1]

\* C18: for a relative range of N >= 1 months and every reference date, the
\* 29th to 31st of a month and January included, the end month is the
\* calendar month before the reference month and the start month lies N-1
\* months before the end month; N = 1 gives "for month {end}" (February on
\* 2024-03-15), N > 1 gives "for months {start} to {end}".
C18_MonthRange ==
  ( /\ FormatterDone
    /\ call.period.type = "relativeRange"
    /\ call.period.unit = "month"
    /\ call.period.count >= 1 )
  => LET text == call.outcome.text
         N == call.period.count
         end == MonthNameBack(call.today, 1)
         start == MonthNameBack(call.today, N)
     IN /\ ~call.outcome.threw
        /\ N = 1 => text = Phrase("for month {a}", << end >>, << >>)
        /\ N > 1 => text = Phrase("for months {a} to {b}", << start >>, << end >>)
        /\ (call.today = MakeDay(2024, 2, 15) /\ N = 1)
             => text = Phrase("for month {a}", << "February" >>, << >>)

C18_Witness ==
  /\ FormatterDone
  /\ call.today = MakeDay(2024, 0, 31)
  /\ call.period = RelativeRange(3, "month")
  /\ call.outcome.text
       = Phrase("for months {a} to {b}", << "October" >>, << "December" >>)

\* C19 as stated: for a relative range of N >= 1 weeks and every reference
\* date the range ends on the Saturday of the most recent completed week
\* (Sunday to Saturday) and starts on the Sunday that begins the N-th week
\* back: 7*N consecutive days, also when that Saturday lies in the month or
\* year before the reference date.
C19_WeekRange ==
  ( /\ FormatterDone
    /\ call.period.type = "relativeRange"
    /\ call.period.unit = "week"
    /\ call.period.count >= 1 )
  => LET text == call.outcome.text
         lastSaturday == call.today - getUTCDay(call.today) - 1
     IN /\ ~call.outcome.threw
        /\ text.template = "for dates {a} to {b}"
        /\ DateParse(text.b) = lastSaturday
        /\ DateParse(text.a) = lastSaturday - 7 * call.period.count + 1
        /\ getUTCDay(DateParse(text.a)) = 0

KnownTypes ==
  {"relativeRange", "relativeSpecific", "specificMonth", "specificYear",
   "specificDate"}

\* C20: for a period whose variant tag is not recognized, or whose unit or
\* named period inside a known variant is not recognized, the formatter
\* returns a fallback text and does not throw: the rendering of the value
\* for an unknown tag, "Unknown period" for an unknown unit or named period
\* (the invalid-range sentinel when the count is not positive).
C20_UnrecognizedPeriodFallsBack ==
  LET period == call.period
      text == call.outcome.text
  IN /\ (FormatterDone /\ period.type \notin KnownTypes)
          => /\ ~call.outcome.threw
             /\ text = Phrase("Invalid period object: {a}", << period >>, << >>)
     /\ ( /\ FormatterDone
          /\ period.type = "relativeRange"
          /\ period.unit \notin Units )
          => /\ ~call.outcome.threw
             /\ text.template
                  = IF period.count <= 0 THEN "Invalid range" ELSE "Unknown period"
     /\ ( /\ FormatterDone
          /\ period.type = "relativeSpecific"
          /\ period.period \notin NamedPeriods )
          => /\ ~call.outcome.threw
             /\ text.template = "Unknown period"

C20_Witness ==
  /\ FormatterDone
  /\ call.period = PeriodValue("specificWeek")
  /\ ~call.outcome.threw
  /\ call.outcome.text.template = "Invalid period object: {a}"

\* the criteria have been applied to a pair
CriteriaDone ==
  call.fn = "significanceCriteria" /\ call.called

\* LOW, MEDIUM, HIGH, CRITICAL in rising order
TierRank(tier) ==
  IF tier = "LOW" THEN 1
  ELSE IF tier = "MEDIUM" THEN 2
  ELSE IF tier = "HIGH" THEN 3
  ELSE 4

\* with the average fixed, a larger |change| never has a lower tier
CriteriaMonotone ==
  \A larger \in Magnitudes :
    Abs(larger) >= Abs(call.change)
    => \A t1 \in call.tiers, t2 \in SignificanceCriteria(larger, call.average) :
         TierRank(t1) <= TierRank(t2)

\* C22 as stated: the significance rule gives every pair (change, average)
\* exactly one tier, is monotonic in |change|, and each boundary belongs to
\* the lower tier: |change| = 0.5 * average gives LOW, = average gives
\* MEDIUM, = 2 * average gives HIGH.
C22_BoundariesAsStated ==
  CriteriaDone
  => /\ Cardinality(call.tiers) = 1
     /\ CriteriaMonotone
     /\ 2 * Abs(call.change) = call.average => call.tiers = {"LOW"}
     /\ Abs(call.change) = call.average => call.tiers = {"MEDIUM"}
     /\ Abs(call.change) = 2 * call.average => call.tiers = {"HIGH"}

\* C22 amended: exactly one tier for every pair, monotonic in |change|, and
\* for a positive average each boundary belongs to the lower tier; for an
\* average of 0 the three boundaries are the one point |change| = 0, LOW.
C22_CriteriaPartitionAndMonotone ==
  CriteriaDone
  => /\ Cardinality(call.tiers) = 1
     /\ CriteriaMonotone
     /\ 2 * Abs(call.change) = call.average => call.tiers = {"LOW"}
     /\ (call.average > 0 /\ Abs(call.change) = call.average)
          => call.tiers = {"MEDIUM"}
     /\ (call.average > 0 /\ Abs(call.change) = 2 * call.average)
          => call.tiers = {"HIGH"}

C22_Witness ==
  /\ CriteriaDone
  /\ call.average = 4
  /\ call.change = -2
  /\ call.tiers = {"LOW"}

\* C21 as stated: every record the parser returns as a result, not as an
\* error record, has a significance tier that its absoluteChange and its
\* historicalAverage give under the thresholds; a record that breaks them
\* is not returned as a valid analysis.
C21_ReturnedTierMeetsThresholds ==
  ( /\ ParserDone
    /\ ~call.outcome.threw
    /\ ~IsErrorRecord(call.outcome.value)
    /\ call.outcome.value.type = "object"
    /\ call.outcome.value.absoluteChange # << >>
    /\ call.outcome.value.historicalAverage # << >> )
  => call.outcome.value.significance
       \in SignificanceCriteria(call.outcome.value.absoluteChange[1],
                                call.outcome.value.historicalAverage[1])

\* C23 as stated: a failing data fetch is treated as null data, so prompt
\* building and the AI call still take place for that metric and its task
\* ends with what the parser returns: a task is never ended by its fetch,
\* only a failing AI call can reject it.
C23_FetchFailureContinuesWithNull ==
  \A r \in DOMAIN runs : \A i \in MetricIds :
    runs[r].task[i].pc = "rejected"
    => Log(r, i, "Gemini Service") \in logged

\* the steps of one task: fetch, then prompt and AI call, then parse
TaskSteps ==
  { << "fetching", "generating" >>, << "fetching", "rejected" >>,
    << "generating", "fulfilled" >>, << "generating", "rejected" >> }

\* C25: for each metric in each run the steps come in the order fetch, build
\* prompt, invoke AI, parse, each at most once: a task starts with its
\* fetch, the AI is called only after the fetch has completed, nothing is
\* done again after a failure, and a failed step ends the task.
C25_StepsInOrderOnce ==
  [][ /\ \A r \in DOMAIN runs : \A i \in MetricIds :
           runs'[r].task[i].pc # runs[r].task[i].pc
           => << runs[r].task[i].pc, runs'[r].task[i].pc >> \in TaskSteps
      /\ \A r \in DOMAIN runs' \ DOMAIN runs : \A i \in MetricIds :
           runs'[r].task[i].pc = "fetching"
      /\ \A r \in DOMAIN runs' : \A i \in MetricIds :
           runs'[r].task[i].pc = "fulfilled"
           => runs'[r].task[i].value
                = parseGeminiResponse(runs'[r].task[i].geminiResult, i)
    ]_vars

C25_Witness ==
  /\ Len(runs) = 1
  /\ runs[1].task[1].pc = "rejected"
  /\ Log(1, 1, "Gemini Service") \in logged
  /\ runs[1].task[2].pc = "fulfilled"
  /\ runs[1].task[2].value.error = "none"

\* the process was ended by an exception: by process.exit(1) in the
\* uncaughtException handler, or by an exception not handled at all
EndedByException ==
  pc \in {"exit(1)", "crashed"}

\* every run that failed was logged as an unhandled rejection, and did not
\* end the process
RejectionsLoggedAndSurvived ==
  \A r \in DOMAIN runs :
    runs[r].status = "failed"
    => /\ Log(r, 0, "Unhandled Rejection") \in logged
       /\ pc \in {"serving", "exited"}
       /\ cronTasks # {} => pc = "serving"

\* the uncaughtException handler ran: it logged, and it ended the process
\* exactly when NODE_ENV is production
HandlerLoggedAndExitedInProduction ==
  env.NODE_ENV # "unread"
  => /\ Log(0, 0, "Uncaught Exception") \in logged
     /\ env.NODE_ENV = "production" <=> pc = "exit(1)"
     /\ env.NODE_ENV # "production" => pc \in {"serving", "exited"}

\* C24 as stated: an uncaught exception or an unhandled rejection at process
\* level is always logged; the process is ended by an exception only for an
\* uncaught exception with NODE_ENV production, and keeps running in every
\* other case.
C24_OnlyProductionUncaughtTerminates ==
  /\ RejectionsLoggedAndSurvived
  /\ HandlerLoggedAndExitedInProduction
  /\ EndedByException
       => /\ env.NODE_ENV = "production"
          /\ Log(0, 0, "Uncaught Exception") \in logged

\* C24 amended: once the global handlers are installed, that is once the
\* service modules have loaded, an uncaught exception or an unhandled
\* rejection is always logged, the process is ended only for an uncaught
\* exception with NODE_ENV production, and keeps running in every other
\* case.  An exception thrown while the service modules load comes before
\* the handlers are installed and ends the process whatever NODE_ENV is.
C24_HandlersOnceInstalled ==
  /\ RejectionsLoggedAndSurvived
  /\ HandlerLoggedAndExitedInProduction
  /\ pc = "exit(1)"
       => /\ env.NODE_ENV = "production"
          /\ Log(0, 0, "Uncaught Exception") \in logged
  /\ pc = "crashed"
       => /\ env.NODE_ENV = "unread"
          /\ ~env.DUNE_API_KEY \/ ~env.GEMINI_API_KEY \/ ~env.SLACK_WEBHOOK_URL

C24_Witness ==
  /\ env.CRON_SCHEDULE = "invalid"
  /\ env.NODE_ENV = "development"
  /\ Log(0, 0, "Uncaught Exception") \in logged
  /\ pc = "serving"

\* C26 as stated: for every period that is rendered as a range of dates (a
\* relative range of N >= 1 days or weeks, and the named period lastWeek)
\* and every reference date, the start is a day of the calendar not later
\* than the end, and the end lies before the reference today.
C26_DateRangeWellFormed ==
  ( /\ FormatterDone
    /\ \/ /\ call.period.type = "relativeRange"
          /\ call.period.unit \in {"day", "week"}
          /\ call.period.count >= 1
       \/ /\ call.period.type = "relativeSpecific"
          /\ call.period.period = "lastWeek" )
  => LET text == call.outcome.text IN
       /\ ~call.outcome.threw
       /\ text.template \in {"for dates {a} to {b}", "for week {a} to {b}"}
       /\ ValidCalendarDate(text.a)
       /\ ValidCalendarDate(text.b)
       /\ DateParse(text.a) <= DateParse(text.b)
       /\ DateParse(text.b) < call.today

\* the blocks that render a significance, in the order of the message: the
\* rows of the table first, then the sections of the grid
RendersTier(block) ==
  block.label \in {"LOW", "MEDIUM!", "HIGH!", "CRITICAL!"}

\* the tier a rendered label names
LabelTier(label) ==
  IF label = "LOW" THEN "LOW"
  ELSE IF label = "MEDIUM!" THEN "MEDIUM"
  ELSE IF label = "HIGH!" THEN "HIGH"
  ELSE "CRITICAL"

\* C27 as stated: for every tier LOW, MEDIUM, HIGH or CRITICAL that a record
\* of the batch carries, its label in the table and its label in the grid
\* name that tier; no other tier and no record without a tier is rendered
\* as LOW.
C27_LabelNamesTheTier ==
  \A r \in DOMAIN runs : \A s \in DOMAIN runs[r].sends :
    LET batch == runs[r].batch
        n == Len(batch)
        labels == SelectSeq(runs[r].sends[s].blocks, RendersTier)
    IN /\ Len(labels) = 2 * n
       /\ \A k \in 1..n : \A at \in {k, n + k} :
            IF batch[k].significance \in Tiers
            THEN LabelTier(labels[at].label) = batch[k].significance
            ELSE labels[at].label # "LOW"

\* C30 as stated: when the configured schedule expression fails validation
\* the error is logged and the recurring trigger is registered with the
\* default schedule "0 10 * * 1", not with the invalid expression.
C30_InvalidScheduleFallsBackToDefault ==
  ( /\ env.CRON_SCHEDULE = "invalid"
    /\ pc \in {"serving", "exited", "exit(1)"} )
  => /\ Log(0, 0, "Invalid cron schedule") \in logged
     /\ cronTasks = {"0 10 * * 1"}

\* C28: a firing of the recurring trigger starts a run also while an earlier
\* run is in flight, and the runs proceed independently: a step of one run
\* leaves every other run as it was, every run has its own task per metric,
\* the batch a run hands to the sink holds the values of its own tasks in
\* the order of the metrics, and a run sends at most one message, built from
\* its own batch.
C28_OverlappingRunsAreIndependent ==
  [][ /\ firings' # firings
         => /\ firings' = firings + 1
            /\ runs' = Append(runs, NewRun("cron"))
      /\ \A r \in DOMAIN runs :
           runs'[r] # runs[r]
           => \A q \in DOMAIN runs \ {r} : runs'[q] = runs[q]
      /\ \A r \in DOMAIN runs' :
           /\ DOMAIN runs'[r].task = MetricIds
           /\ runs'[r].sinkCalls <= 1
           /\ Len(runs'[r].sends) <= 1
           /\ runs'[r].sinkCalls = 1
              => /\ \A i \in MetricIds : runs'[r].task[i].pc = "fulfilled"
                 /\ runs'[r].batch = [i \in MetricIds |-> runs'[r].task[i].value]
           /\ \A k \in DOMAIN runs'[r].sends :
                /\ runs'[r].sends[k].blocks = AllBlocks(runs'[r].batch)
                /\ runs'[r].sends[k].metricCount = NumMetrics
    ]_vars

C28_Witness ==
  /\ Len(runs) = 2
  /\ firings = 2
  /\ runs[1].status = "sending"
  /\ runs[2].status = "sending"
  /\ Len(runs[1].sends) = 1
  /\ Len(runs[2].sends) = 1
  /\ runs[1].sends[1].blocks # runs[2].sends[1].blocks
  /\ IsErrorRecord(runs[1].batch[1])
  /\ ~IsErrorRecord(runs[2].batch[1])

\* C29: in scheduled mode outside production a failed run does not stop the
\* service: its rejection is logged as an unhandled rejection, the process
\* keeps serving with the recurring trigger registered, and the trigger can
\* still fire and start a new run.
C29_FailedRunLeavesTheTriggerAlive ==
  \A r \in DOMAIN runs :
    (runs[r].status = "failed" /\ env.NODE_ENV # "production")
    => /\ Log(r, 0, "Unhandled Rejection") \in logged
       /\ pc = "serving"
       /\ cronTasks = {env.CRON_SCHEDULE}
       /\ Len(runs) = firings
       /\ Len(runs) < 2 => ENABLED CronFireWithin(2)

C29_Witness ==
  /\ Len(runs) = 2
  /\ firings = 2
  /\ runs[1].status = "failed"
  /\ \A i \in MetricIds : runs[1].task[i].pc \in {"fulfilled", "rejected"}
  /\ Log(1, 0, "Unhandled Rejection") \in logged
  /\ runs[2] = NewRun("cron")
  /\ pc = "serving"

====
